---- MODULE Spec2Model ----
(***************************************************************************)
(* CF-tree construction of borscht (borscht/src/cftree.rs) over the Birch  *)
(* cluster feature (borscht/src/cfeature/birch.rs).                        *)
(*                                                                         *)
(* Points have integer coordinates, on which the f64 arithmetic of the     *)
(* source is exact.  diam2 is kept as an exact fraction num/den.           *)
(* Vec indices are 1-based here (0-based in the source); an index 0 stands *)
(* for Option::None in the closest-entry fold, and Option<Node> is a       *)
(* sequence of length 0 (None) or 1 (Some).                                *)
(***************************************************************************)
EXTENDS Integers, Sequences, FiniteSets, TLC

VARIABLES config, root, inserted, pc, bl, blret, cfacc, cfout, calc

vars == <<config, root, inserted, pc, bl, blret, cfacc, cfout, calc>>

treeVars == <<config, root, inserted, pc>>

listVars == <<bl, blret>>

cfVars == <<cfacc, cfout>>

pointVars == <<calc>>

\* ---------------------------------------------------------------- bounds
\* Longest point stream fed to from_iter.
MaxPoints == 5

\* Longest array or iterator handed to a BoundedList constructor.
MaxLen == 3

\* Largest min or max of a BoundedList.
MaxCap == 3

\* Most points added to one cluster feature.
MaxCFPoints == 3

\* Bits of the significand of the modelled f64 values.
MantissaBits == 4

\* ------------------------------------------------------- program constants
\* Point<3>, the dimensionality used by the test suite.
Dims == 3

\* Stand-in for Scalar::max_value(), the initial closest_dist2 of the fold in
\* Node::insert; every squared distance of the bounded model is below it.
ScalarMax == 1000000000

\* ------------------------------------------------------------------ Point
PointZero == [i \in 1..Dims |-> 0]

PointAdd(a, b) == [i \in 1..Dims |-> a[i] + b[i]]

PointSub(a, b) == [i \in 1..Dims |-> a[i] - b[i]]

RECURSIVE Norm2Fold(_, _, _)
Norm2Fold(p, i, acc) ==
    IF i > Dims THEN acc ELSE Norm2Fold(p, i + 1, acc + p[i] * p[i])

norm2(p) == Norm2Fold(p, 1, 0)

\* --------------------------------------------------------- Birch CFeature
CFZero == [ls |-> PointZero, ss |-> 0, n |-> 0]

CFAdd(a, b) == [ls |-> PointAdd(a.ls, b.ls), ss |-> a.ss + b.ss, n |-> a.n + b.n]

CFAddPoint(cf, p) == [ls |-> PointAdd(cf.ls, p), ss |-> cf.ss + norm2(p), n |-> cf.n + 1]

CFFrom(p) == CFAddPoint(CFZero, p)

\* Variant: the distance is taken from the center ls / n.
dist2Point_Center(cf, p) ==
    norm2([i \in 1..Dims |-> (cf.ls[i] \div (IF cf.n = 0 THEN 1 ELSE cf.n)) - p[i]])

dist2Point(cf, p) == norm2(PointSub(cf.ls, p))

dist2(a, b) == norm2(PointSub(a.ls, b.ls))

diam2(cf) ==
    [num |-> 2 * cf.n * cf.ss - 2 * norm2(cf.ls),
     den |-> IF cf.n < 2 THEN 1 ELSE cf.n * (cf.n - 1)]

size(cf) == cf.n

\* ----------------------------------------------------------- TreeConfig
Finite(n, d) == [num |-> n, den |-> d, kind |-> "finite"]

Infinite == [num |-> 0, den |-> 1, kind |-> "inf"]

BasicConfig(mn, mx, th) == [capacity |-> [min |-> mn, max |-> mx], threshold |-> th]

\* x <= threshold for a finite fraction x and an f64 threshold.
LeqThreshold(x, th) ==
    CASE th.kind = "finite" -> x.num * th.den <= th.num * x.den
      [] th.kind = "inf"    -> TRUE
      [] OTHER              -> FALSE

\* ------------------------------------------------------- Node, NodeEntry
Node(es) == [entries |-> es]

NodeNew == Node(<<>>)

None == <<>>

Some(x) == <<x>>

NodeEntry(f, ch) == [feature |-> f, child |-> ch]

with_point(p) == NodeEntry(CFFrom(p), None)

RECURSIVE ComputeFold(_, _, _)
ComputeFold(es, i, acc) ==
    IF i > Len(es) THEN acc ELSE ComputeFold(es, i + 1, CFAdd(acc, es[i].feature))

compute_feature(node) == ComputeFold(node.entries, 1, CFZero)

RECURSIVE height(_)
RECURSIVE MaxEntryHeight(_, _, _)
MaxEntryHeight(es, i, acc) ==
    IF i > Len(es) THEN acc
    ELSE LET h == IF es[i].child = None THEN 0 ELSE height(es[i].child[1])
         IN  MaxEntryHeight(es, i + 1, IF h > acc THEN h ELSE acc)

height(node) == 1 + MaxEntryHeight(node.entries, 1, 0)

\* -------------------------------------------------------- NodeEntry::insert
\* Result of NodeEntry::insert: the entry afterwards and Success / Failure(p).
EntryInsertion(ok, e, p) == [p |-> p, success |-> ok, entry |-> e]

\* Variant: the threshold test looks at the feature before the point is added.
NodeEntry_insert_OldDiam(entry, p, c) ==
    LET feature_with_point == CFAddPoint(entry.feature, p)
    IN  IF LeqThreshold(diam2(entry.feature), c.threshold)
        THEN EntryInsertion(TRUE, [entry EXCEPT !.feature = feature_with_point], p)
        ELSE EntryInsertion(FALSE, entry, p)

\* Variant: strict comparison against the threshold.
NodeEntry_insert_Strict(entry, p, c) ==
    LET feature_with_point == CFAddPoint(entry.feature, p)
        d == diam2(feature_with_point)
    IN  IF LeqThreshold(d, c.threshold)
           /\ ~(c.threshold.kind = "finite"
                /\ d.num * c.threshold.den = c.threshold.num * d.den)
        THEN EntryInsertion(TRUE, [entry EXCEPT !.feature = feature_with_point], p)
        ELSE EntryInsertion(FALSE, entry, p)

\* Variant: comparison against the threshold the wrong way round.
NodeEntry_insert_Flipped(entry, p, c) ==
    LET feature_with_point == CFAddPoint(entry.feature, p)
        d == diam2(feature_with_point)
    IN  IF c.threshold.kind = "finite"
           /\ d.num * c.threshold.den >= c.threshold.num * d.den
        THEN EntryInsertion(TRUE, [entry EXCEPT !.feature = feature_with_point], p)
        ELSE EntryInsertion(FALSE, entry, p)

\* Variant: the feature is overwritten before the threshold test.
NodeEntry_insert_Clobber(entry, p, c) ==
    LET feature_with_point == CFAddPoint(entry.feature, p)
    IN  EntryInsertion(LeqThreshold(diam2(feature_with_point), c.threshold),
                       [entry EXCEPT !.feature = feature_with_point], p)

NodeEntry_insert(entry, p, c) ==
    LET feature_with_point == CFAddPoint(entry.feature, p)
    IN  IF LeqThreshold(diam2(feature_with_point), c.threshold)
        THEN EntryInsertion(TRUE, [entry EXCEPT !.feature = feature_with_point], p)
        ELSE EntryInsertion(FALSE, entry, p)

\* ------------------------------------------------------------ Node::farthest
\* The fold over tuple_combinations(): pairs (i, j), i < j, in lexicographic
\* order.  The tracker is None or Some(Farthest).
Farthest(d, l, r, rest) == [rest |-> rest, farthest_dist2 |-> d, lidx |-> l, ridx |-> r]

\* Variant: a pair at the same distance as the tracked one replaces it.
RECURSIVE FarthestFold_LastMax(_, _, _, _)
FarthestFold_LastMax(es, i, j, tracker) ==
    IF j > Len(es) THEN tracker
    ELSE LET d == dist2(es[i].feature, es[j].feature)
             next == IF tracker = None
                       THEN Farthest(d, i, j, {})
                     ELSE IF d >= tracker[1].farthest_dist2
                       THEN Farthest(d, i, j,
                                     tracker[1].rest \cup {tracker[1].lidx, tracker[1].ridx})
                     ELSE [tracker[1] EXCEPT !.rest = @ \cup {i, j}]
         IN  IF j < Len(es) THEN FarthestFold_LastMax(es, i, j + 1, Some(next))
             ELSE FarthestFold_LastMax(es, i + 1, i + 2, Some(next))

RECURSIVE FarthestFold(_, _, _, _)
FarthestFold(es, i, j, tracker) ==
    IF j > Len(es) THEN tracker
    ELSE LET d == dist2(es[i].feature, es[j].feature)
             next == IF tracker = None
                       THEN Farthest(d, i, j, {})
                     ELSE IF d > tracker[1].farthest_dist2
                       THEN Farthest(d, i, j,
                                     tracker[1].rest \cup {tracker[1].lidx, tracker[1].ridx})
                     ELSE [tracker[1] EXCEPT !.rest = @ \cup {i, j}]
         IN  IF j < Len(es) THEN FarthestFold(es, i, j + 1, Some(next))
             ELSE FarthestFold(es, i + 1, i + 2, Some(next))

\* None is the failed expect("unexpected empty node").
farthest(node) == FarthestFold(node.entries, 1, 2, None)

\* --------------------------------------------------------- Node::check_split
Single(node) == [kind |-> "Single", node |-> node]

Split(left, right) == [kind |-> "Split", left |-> left, right |-> right]

Panic == [kind |-> "Panic"]

\* Variant: the entries sent right are collected in reverse order.
RECURSIVE PartitionFold_Reversed(_, _, _, _, _)
PartitionFold_Reversed(es, lset, idx, left, right) ==
    IF idx > Len(es) THEN Split(Node(left), Node(right))
    ELSE IF idx \in lset
         THEN PartitionFold_Reversed(es, lset, idx + 1, Append(left, es[idx]), right)
         ELSE PartitionFold_Reversed(es, lset, idx + 1, left, <<es[idx]>> \o right)

RECURSIVE PartitionFold(_, _, _, _, _)
PartitionFold(es, lset, idx, left, right) ==
    IF idx > Len(es) THEN Split(Node(left), Node(right))
    ELSE IF idx \in lset
         THEN PartitionFold(es, lset, idx + 1, Append(left, es[idx]), right)
         ELSE PartitionFold(es, lset, idx + 1, left, Append(right, es[idx]))

\* Variant: the entries are drained before the farthest pair is searched.
check_split_DrainFirst(node, c) ==
    IF Len(node.entries) >= c.capacity.max
    THEN LET f == farthest(Node(<<>>))
         IN  IF f = None THEN Panic
             ELSE PartitionFold(node.entries, {}, 1, <<>>, <<>>)
    ELSE Single(node)

check_split(node, c) ==
    IF Len(node.entries) >= c.capacity.max
    THEN LET f == farthest(node)
         IN  IF f = None THEN Panic
             ELSE LET es == node.entries
                      lidx == f[1].lidx
                      ridx == f[1].ridx
                      lset == {idx \in f[1].rest :
                                  dist2(es[lidx].feature, es[idx].feature)
                                    < dist2(es[ridx].feature, es[idx].feature)}
                  IN  PartitionFold(es, lset, 1, <<>>, <<>>)
    ELSE Single(node)

\* -------------------------------------------------------------- Node::insert
\* The closest-entry fold: (Some(entry), d2) when d2 < closest_dist2, and
\* (None, closest_dist2) otherwise.
RECURSIVE ClosestFold(_, _, _, _, _)
ClosestFold(es, p, i, sel, closest_dist2) ==
    IF i > Len(es) THEN sel
    ELSE LET d2 == dist2Point(es[i].feature, p)
         IN  IF d2 < closest_dist2
             THEN ClosestFold(es, p, i + 1, i, d2)
             ELSE ClosestFold(es, p, i + 1, 0, closest_dist2)

Closest(node, p) == ClosestFold(node.entries, p, 1, 0, ScalarMax)

\* Variant: the right half of a split child is not added to the parent.
OnChildSplit_DropRight(node, idx, left, right) ==
    Node([node.entries EXCEPT ![idx] = NodeEntry(compute_feature(left), Some(left))])

\* Variant: the entry for right is put in the selected entry's place and the
\* entry for left is pushed.
OnChildSplit_RightInPlace(node, idx, left, right) ==
    Node(Append([node.entries EXCEPT ![idx] = NodeEntry(compute_feature(right), Some(right))],
                NodeEntry(compute_feature(left), Some(left))))

\* Recursive Split(left, right): left replaces the child, the entry's feature
\* is recomputed, an entry for right is pushed.
OnChildSplit(node, idx, left, right) ==
    Node(Append([node.entries EXCEPT ![idx] = NodeEntry(compute_feature(left), Some(left))],
                NodeEntry(compute_feature(right), Some(right))))

\* Variant: the entry's feature is not recomputed.
OnChildSingle_Stale(node, idx, child) ==
    Node([node.entries EXCEPT ![idx] = NodeEntry(@.feature, Some(child))])

\* Recursive Single(child): the child is put back, the feature recomputed.
OnChildSingle(node, idx, child) ==
    Node([node.entries EXCEPT ![idx] = NodeEntry(compute_feature(child), Some(child))])

Push(node, entry) == Node(Append(node.entries, entry))

RECURSIVE Node_insert(_, _, _)
Node_insert(node, p, c) ==
    LET sel == Closest(node, p)
    IN  IF sel # 0 /\ node.entries[sel].child # None
        THEN LET r == Node_insert(node.entries[sel].child[1], p, c)
             IN  CASE r.kind = "Split"  ->
                          check_split(OnChildSplit(node, sel, r.left, r.right), c)
                   [] r.kind = "Single" -> Single(OnChildSingle(node, sel, r.node))
                   [] OTHER             -> r
        ELSE IF sel # 0
        THEN LET er == NodeEntry_insert(node.entries[sel], p, c)
             IN  IF er.success
                 THEN Single(Node([node.entries EXCEPT ![sel] = er.entry]))
                 ELSE check_split(Push(node, with_point(er.p)), c)
        ELSE Single(Push(node, with_point(p)))

\* ----------------------------------------------------------- Node::from_iter
\* One iteration of the loop of from_iter: the new root.
\* The nodes one call of Node::insert visits: the node itself and, while the
\* selected entry has a child, the nodes visited in that child.
RECURSIVE InsertPath(_, _)
InsertPath(node, p) ==
    LET sel == Closest(node, p)
    IN  IF sel # 0 /\ node.entries[sel].child # None
        THEN {node} \cup InsertPath(node.entries[sel].child[1], p)
        ELSE {node}

\* The nodes on which one call of Node::insert runs check_split, at every
\* level of the recursion: the node after the right half of a child split was
\* appended, or after the refused point was appended as a new entry.
RECURSIVE SplitInputs(_, _, _)
SplitInputs(node, p, c) ==
    LET sel == Closest(node, p)
    IN  IF sel # 0 /\ node.entries[sel].child # None
        THEN LET r == Node_insert(node.entries[sel].child[1], p, c)
             IN  SplitInputs(node.entries[sel].child[1], p, c)
                   \cup (IF r.kind = "Split"
                         THEN {OnChildSplit(node, sel, r.left, r.right)}
                         ELSE {})
        ELSE IF sel # 0
        THEN LET er == NodeEntry_insert(node.entries[sel], p, c)
             IN  IF er.success THEN {} ELSE {Push(node, with_point(er.p))}
        ELSE {}

\* Variant: the new root lists the right node first.
Promote_Swapped(r) ==
    IF r.kind = "Single" THEN r.node
    ELSE Node(<<NodeEntry(compute_feature(r.right), Some(r.right)),
                NodeEntry(compute_feature(r.left), Some(r.left))>>)

Promote(r) ==
    IF r.kind = "Single" THEN r.node
    ELSE Node(<<NodeEntry(compute_feature(r.left), Some(r.left)),
                NodeEntry(compute_feature(r.right), Some(r.right))>>)

RECURSIVE from_iter(_, _, _)
from_iter(points, c, acc) ==
    IF points = <<>> THEN acc
    ELSE LET r == Node_insert(acc, Head(points), c)
         IN  IF r.kind = "Panic" THEN acc
             ELSE from_iter(Tail(points), c, Promote(r))

\* ------------------------------------------------------------------ inputs
SamplePoints == << <<1, 2, 3>>, <<2, 2, 3>>, <<1, 3, 3>>, <<1, 2, 4>> >>

Points == {SamplePoints[i] : i \in 1..4} \cup {<<0, 0, 0>>}

DefaultConfig == BasicConfig(1, 3, Finite(1, 2))

Configs ==
    {DefaultConfig,
     BasicConfig(1, 2, Finite(1, 2)),
     BasicConfig(1, 3, Finite(1, 1)),
     BasicConfig(1, 2, Finite(0, 1)),
     BasicConfig(2, 1, Finite(1, 2)),
     BasicConfig(1, 3, Infinite)}

\* ---------------------------------------------------------------- BoundedList
\* (borscht/src/bounded_list.rs)
BoundedList(values, min, max) == [min |-> min, max |-> max, values |-> values]

Ok(v) == [ok |-> TRUE, val |-> v]

Err(e) == [ok |-> FALSE, err |-> e]

InvalidBounds == [kind |-> "InvalidBounds"]

MinBoundExceeded == [kind |-> "MinBoundExceeded"]

MaxBoundExceeded(item) == [kind |-> "MaxBoundExceeded", item |-> item]

\* Variant: a full list (len = max) is refused.
check_bounds_OffByOne(len, min, max) ==
    IF ~(min > max) /\ ~(len < min) /\ ~(len >= max) THEN Ok(<<>>) ELSE Err(InvalidBounds)

check_bounds(len, min, max) ==
    IF ~(min > max) /\ ~(len < min) /\ ~(len > max) THEN Ok(<<>>) ELSE Err(InvalidBounds)

with_max(max) == BoundedList(<<>>, 0, max)

BoundedList_from_arr(initial_values, min, max) ==
    IF check_bounds(Len(initial_values), min, max).ok
    THEN Ok(BoundedList(initial_values, min, max))
    ELSE Err(InvalidBounds)

BoundedList_from_iter(initial_values, min, max) ==
    LET values == initial_values
    IN  IF check_bounds(Len(values), min, max).ok
        THEN Ok(BoundedList(values, min, max))
        ELSE Err(InvalidBounds)

\* Variant: a refused item overwrites the last stored value.
BoundedList_push_Overwrite(list, item) ==
    IF Len(list.values) >= list.max
    THEN [list |-> [list EXCEPT !.values = [i \in 1..Len(@) |->
                                               IF i = Len(@) THEN item ELSE @[i]]],
          ret |-> Err(MaxBoundExceeded(item))]
    ELSE [list |-> [list EXCEPT !.values = Append(@, item)], ret |-> Ok(<<>>)]

\* push, pop and drain give the list afterwards and the value returned.
BoundedList_push(list, item) ==
    IF Len(list.values) >= list.max
    THEN [list |-> list, ret |-> Err(MaxBoundExceeded(item))]
    ELSE [list |-> [list EXCEPT !.values = Append(@, item)], ret |-> Ok(<<>>)]

BoundedList_pop(list) ==
    IF Len(list.values) <= list.min
    THEN [list |-> list, ret |-> Err(MinBoundExceeded)]
    ELSE [list |-> [list EXCEPT !.values = SubSeq(@, 1, Len(@) - 1)],
          ret |-> Ok(list.values[Len(list.values)])]

\* values.drain(..): every element leaves the Vec, whatever min is.
BoundedList_drain(list) ==
    [list |-> [list EXCEPT !.values = <<>>], ret |-> list.values]

Items == {1, 2}

RECURSIVE SeqsUpTo(_)
SeqsUpTo(n) ==
    IF n = 0 THEN {<<>>}
    ELSE LET shorter == SeqsUpTo(n - 1)
         IN  shorter \cup {Append(q, x) : q \in {r \in shorter : Len(r) = n - 1}, x \in Items}

NoCall == [op |-> "none"]

ListIdle == bl = None /\ blret = NoCall

\* ------------------------------------------------------------------ Scalar
\* f64 values outside the integers: exact fractions num/den in lowest terms
\* with den > 0, and den = 0 for the non-finite values: 1/0 and -1/0 are the
\* infinities, 0/0 is NaN.
RECURSIVE GCD(_, _)
GCD(a, b) == IF b = 0 THEN a ELSE GCD(b, a % b)

Abs(x) == IF x < 0 THEN -x ELSE x

Sign(x) == IF x < 0 THEN -1 ELSE IF x > 0 THEN 1 ELSE 0

Rat(n, d) ==
    IF d = 0 THEN [num |-> Sign(n), den |-> 0]
    ELSE LET g == GCD(Abs(n), Abs(d))
         IN  [num |-> Sign(d) * (n \div g), den |-> Abs(d) \div g]

ToRat(x) == [num |-> x, den |-> 1]

NaN == [num |-> 0, den |-> 0]

IsNaN(a) == a.den = 0 /\ a.num = 0

RAdd(a, b) ==
    IF a.den = 0 /\ b.den = 0
    THEN (IF a.num = b.num THEN a ELSE NaN)
    ELSE IF a.den = 0 THEN a
    ELSE IF b.den = 0 THEN b
    ELSE Rat(a.num * b.den + b.num * a.den, a.den * b.den)

RNeg(a) == [num |-> -a.num, den |-> a.den]

RSub(a, b) == RAdd(a, RNeg(b))

RMul(a, b) == Rat(a.num * b.num, a.den * b.den)

RDiv(a, b) == RMul(a, Rat(b.den, b.num))

\* == on f64: NaN equals nothing.
REq(a, b) == ~IsNaN(a) /\ ~IsNaN(b) /\ a = b

\* Points of f64 coordinates.
RPoint(p) == [i \in 1..Dims |-> ToRat(p[i])]

RPointZero == [i \in 1..Dims |-> ToRat(0)]

RPointAdd(a, b) == [i \in 1..Dims |-> RAdd(a[i], b[i])]

RPointSub(a, b) == [i \in 1..Dims |-> RSub(a[i], b[i])]

RPointMul(a, b) == [i \in 1..Dims |-> RMul(a[i], b[i])]

RPointScale(a, x) == [i \in 1..Dims |-> RMul(a[i], x)]

RPointDivScalar(a, x) == [i \in 1..Dims |-> RDiv(a[i], x)]

RPointEq(a, b) == \A i \in 1..Dims : REq(a[i], b[i])

RECURSIVE RNorm2Fold(_, _, _)
RNorm2Fold(p, i, acc0) ==
    IF i > Dims THEN acc0 ELSE RNorm2Fold(p, i + 1, RAdd(acc0, RMul(p[i], p[i])))

Rnorm2(p) == RNorm2Fold(p, 1, ToRat(0))

\* ------------------------------------------------------- Birch CFeature (2)
center(cf) == RPointDivScalar(RPoint(cf.ls), ToRat(cf.n))

\* diam2 as an f64 value.
Rdiam2(cf) == RDiv(ToRat(diam2(cf).num), ToRat(diam2(cf).den))

\* -------------------------------------------------------- Betula CFeature
\* (borscht/src/cfeature/betula.rs)
BetulaCF(n, mu, sdev) == [n |-> n, mu |-> mu, s |-> sdev]

BetulaZero == BetulaCF(ToRat(0), RPointZero, RPointZero)

\* Variant: the mean moves by the weight of the left operand.
BetulaAdd_LeftWeight(a, b) ==
    LET n == RAdd(a.n, b.n)
        mu == RPointAdd(a.mu, RPointScale(RPointSub(b.mu, a.mu), RDiv(a.n, n)))
    IN  BetulaCF(n, mu,
                 RPointAdd(RPointAdd(a.s, b.s),
                           RPointMul(RPointScale(RPointSub(a.mu, b.mu), b.n),
                                     RPointSub(mu, b.mu))))

BetulaAdd(a, b) ==
    LET n == RAdd(a.n, b.n)
        mu == RPointAdd(a.mu, RPointScale(RPointSub(b.mu, a.mu), RDiv(b.n, n)))
    IN  BetulaCF(n, mu,
                 RPointAdd(RPointAdd(a.s, b.s),
                           RPointMul(RPointScale(RPointSub(a.mu, b.mu), b.n),
                                     RPointSub(mu, b.mu))))

BetulaAddPoint(cf, p) == BetulaAdd(cf, BetulaCF(ToRat(1), RPoint(p), RPointZero))

BetulaDist2Point(cf, p) == Rnorm2(RPointSub(cf.mu, RPoint(p)))

BetulaDist2(a, b) == Rnorm2(RPointSub(a.mu, b.mu))

BetulaDiam2(cf) == RMul(RDiv(ToRat(2), cf.n), Rnorm2(cf.s))

BetulaSize(cf) == cf.n

BetulaCenter(cf) == cf.mu

BetulaEq(a, b) == REq(a.n, b.n) /\ RPointEq(a.mu, b.mu) /\ RPointEq(a.s, b.s)

\* ------------------------------------------------------ f64 arithmetic
\* Every f64 operation returns the exact result rounded to the nearest value
\* with a significand of MantissaBits bits, ties to the even significand
\* (f64: 53 bits; the exponent range is not reached by the values used here).
RECURSIVE Pow2(_)
Pow2(k) == IF k = 0 THEN 1 ELSE 2 * Pow2(k - 1)

\* n/d rounded to the nearest integer, ties to even (n >= 0, d > 0).
RoundHalfEven(n, d) ==
    LET q == n \div d
        r == n % d
    IN  IF 2 * r > d THEN q + 1
        ELSE IF 2 * r < d THEN q
        ELSE q + (q % 2)

\* sgn * n/d * 2^e with n/d scaled into [2^(MantissaBits-1), 2^MantissaBits)
\* and then rounded.
RECURSIVE RoundScaled(_, _, _, _)
RoundScaled(sgn, n, d, e) ==
    IF n >= d * Pow2(MantissaBits) THEN RoundScaled(sgn, n, 2 * d, e + 1)
    ELSE IF n < d * Pow2(MantissaBits - 1) THEN RoundScaled(sgn, 2 * n, d, e - 1)
    ELSE IF e >= 0 THEN Rat(sgn * RoundHalfEven(n, d) * Pow2(e), 1)
    ELSE Rat(sgn * RoundHalfEven(n, d), Pow2(-e))

Round(x) ==
    IF x.den = 0 \/ x.num = 0 THEN x
    ELSE RoundScaled(Sign(x.num), Abs(x.num), x.den, 0)

FAdd(a, b) == Round(RAdd(a, b))

FSub(a, b) == Round(RSub(a, b))

FMul(a, b) == Round(RMul(a, b))

FDiv(a, b) == Round(RDiv(a, b))

\* `n as Scalar`
FFromInt(n) == Round(ToRat(n))

FPointAdd(a, b) == [i \in 1..Dims |-> FAdd(a[i], b[i])]

FPointSub(a, b) == [i \in 1..Dims |-> FSub(a[i], b[i])]

FPointMul(a, b) == [i \in 1..Dims |-> FMul(a[i], b[i])]

FPointScale(a, x) == [i \in 1..Dims |-> FMul(a[i], x)]

RECURSIVE FNorm2Fold(_, _, _)
FNorm2Fold(p, i, acc0) ==
    IF i > Dims THEN acc0 ELSE FNorm2Fold(p, i + 1, FAdd(acc0, FMul(p[i], p[i])))

Fnorm2(p) == FNorm2Fold(p, 1, ToRat(0))

\* Birch CFeature over f64.
FBirchZero == [ls |-> RPointZero, ss |-> ToRat(0), n |-> 0]

FBirchAddPoint(cf, p) ==
    [ls |-> FPointAdd(cf.ls, RPoint(p)),
     ss |-> FAdd(cf.ss, Fnorm2(RPoint(p))),
     n  |-> cf.n + 1]

FBirchDiam2(cf) ==
    FDiv(FSub(FMul(FMul(ToRat(2), FFromInt(cf.n)), cf.ss),
              FMul(ToRat(2), Fnorm2(cf.ls))),
         IF cf.n < 2 THEN ToRat(1) ELSE FFromInt(cf.n * (cf.n - 1)))

FBirchSize(cf) == FFromInt(cf.n)

\* Betula CFeature over f64.
FBetulaAdd(a, b) ==
    LET n == FAdd(a.n, b.n)
        mu == FPointAdd(a.mu, FPointScale(FPointSub(b.mu, a.mu), FDiv(b.n, n)))
    IN  BetulaCF(n, mu,
                 FPointAdd(FPointAdd(a.s, b.s),
                           FPointMul(FPointScale(FPointSub(a.mu, b.mu), b.n),
                                     FPointSub(mu, b.mu))))

FBetulaAddPoint(cf, p) == FBetulaAdd(cf, BetulaCF(ToRat(1), RPoint(p), RPointZero))

FBetulaDiam2(cf) == FMul(FDiv(ToRat(2), cf.n), Fnorm2(cf.s))

\* ------------------------------------------------------ Point arithmetic
\* (borscht/src/point.rs, impl_op!)
\* a % b on f64: the remainder of the division truncated towards zero, which
\* is exact.
Trunc(n, d) == Sign(n) * Sign(d) * (Abs(n) \div Abs(d))

RRem(a, b) ==
    IF a.den = 0 \/ b.num = 0 THEN NaN
    ELSE IF b.den = 0 THEN a
    ELSE RSub(a, RMul(ToRat(Trunc(a.num * b.den, a.den * b.num)), b))

\* `l $op r`, and `l $op_assign r` with the result left in l, on f64 values.
Apply(op, l, r) ==
    CASE op = "+" -> FAdd(l, r)
      [] op = "-" -> FSub(l, r)
      [] op = "*" -> FMul(l, r)
      [] op = "/" -> FDiv(l, r)
      [] op = "%" -> Round(RRem(l, r))

Ops == {"+", "-", "*", "/", "%"}

\* left[i] $op_assign right, for every coordinate i
assign_l_scalar(op, left, right) == [i \in 1..Dims |-> Apply(op, left[i], right)]

PointIdle == calc = NoCall

\* ----------------------------------------------------- CF-tree over f64
\* The tree operations of cftree.rs on Birch features whose ls and ss are f64
\* values; `<` and `<=` on f64 are false on NaN.
RLt(a, b) ==
    IF IsNaN(a) \/ IsNaN(b) THEN FALSE
    ELSE IF a.den = 0 THEN a.num < 0 /\ b # a
    ELSE IF b.den = 0 THEN b.num > 0
    ELSE IF a.den = b.den THEN a.num < b.num
    ELSE a.num * b.den < b.num * a.den

RLeq(a, b) == RLt(a, b) \/ REq(a, b)

FBirchAdd(a, b) ==
    [ls |-> FPointAdd(a.ls, b.ls), ss |-> FAdd(a.ss, b.ss), n |-> a.n + b.n]

FBirchFrom(p) == FBirchAddPoint(FBirchZero, p)

FBirchDist2Point(cf, p) == Fnorm2(FPointSub(cf.ls, RPoint(p)))

FBirchDist2(a, b) == Fnorm2(FPointSub(a.ls, b.ls))

FLeqThreshold(x, th) ==
    CASE th.kind = "finite" -> RLeq(x, Rat(th.num, th.den))
      [] th.kind = "inf"    -> ~IsNaN(x)
      [] OTHER              -> FALSE

Fwith_point(p) == NodeEntry(FBirchFrom(p), None)

RECURSIVE FComputeFold(_, _, _)
FComputeFold(es, i, acc0) ==
    IF i > Len(es) THEN acc0 ELSE FComputeFold(es, i + 1, FBirchAdd(acc0, es[i].feature))

Fcompute_feature(node) == FComputeFold(node.entries, 1, FBirchZero)

FNodeEntry_insert(entry, p, c) ==
    LET feature_with_point == FBirchAddPoint(entry.feature, p)
    IN  IF FLeqThreshold(FBirchDiam2(feature_with_point), c.threshold)
        THEN EntryInsertion(TRUE, [entry EXCEPT !.feature = feature_with_point], p)
        ELSE EntryInsertion(FALSE, entry, p)

RECURSIVE FFarthestFold(_, _, _, _)
FFarthestFold(es, i, j, tracker) ==
    IF j > Len(es) THEN tracker
    ELSE LET d == FBirchDist2(es[i].feature, es[j].feature)
             next == IF tracker = None
                       THEN Farthest(d, i, j, {})
                     ELSE IF RLt(tracker[1].farthest_dist2, d)
                       THEN Farthest(d, i, j,
                                     tracker[1].rest \cup {tracker[1].lidx, tracker[1].ridx})
                     ELSE [tracker[1] EXCEPT !.rest = @ \cup {i, j}]
         IN  IF j < Len(es) THEN FFarthestFold(es, i, j + 1, Some(next))
             ELSE FFarthestFold(es, i + 1, i + 2, Some(next))

Ffarthest(node) == FFarthestFold(node.entries, 1, 2, None)

Fcheck_split(node, c) ==
    IF Len(node.entries) >= c.capacity.max
    THEN LET f == Ffarthest(node)
         IN  IF f = None THEN Panic
             ELSE LET es == node.entries
                      lidx == f[1].lidx
                      ridx == f[1].ridx
                      lset == {idx \in f[1].rest :
                                  RLt(FBirchDist2(es[lidx].feature, es[idx].feature),
                                      FBirchDist2(es[ridx].feature, es[idx].feature))}
                  IN  PartitionFold(es, lset, 1, <<>>, <<>>)
    ELSE Single(node)

RECURSIVE FClosestFold(_, _, _, _, _)
FClosestFold(es, p, i, sel, closest_dist2) ==
    IF i > Len(es) THEN sel
    ELSE LET d2 == FBirchDist2Point(es[i].feature, p)
         IN  IF RLt(d2, closest_dist2)
             THEN FClosestFold(es, p, i + 1, i, d2)
             ELSE FClosestFold(es, p, i + 1, 0, closest_dist2)

FClosest(node, p) == FClosestFold(node.entries, p, 1, 0, ToRat(ScalarMax))

FOnChildSplit(node, idx, left, right) ==
    Node(Append([node.entries EXCEPT ![idx] = NodeEntry(Fcompute_feature(left), Some(left))],
                NodeEntry(Fcompute_feature(right), Some(right))))

FOnChildSingle(node, idx, child) ==
    Node([node.entries EXCEPT ![idx] = NodeEntry(Fcompute_feature(child), Some(child))])

RECURSIVE FNode_insert(_, _, _)
FNode_insert(node, p, c) ==
    LET sel == FClosest(node, p)
    IN  IF sel # 0 /\ node.entries[sel].child # None
        THEN LET r == FNode_insert(node.entries[sel].child[1], p, c)
             IN  CASE r.kind = "Split"  ->
                          Fcheck_split(FOnChildSplit(node, sel, r.left, r.right), c)
                   [] r.kind = "Single" -> Single(FOnChildSingle(node, sel, r.node))
                   [] OTHER             -> r
        ELSE IF sel # 0
        THEN LET er == FNodeEntry_insert(node.entries[sel], p, c)
             IN  IF er.success
                 THEN Single(Node([node.entries EXCEPT ![sel] = er.entry]))
                 ELSE Fcheck_split(Push(node, Fwith_point(er.p)), c)
        ELSE Single(Push(node, Fwith_point(p)))

FPromote(r) ==
    IF r.kind = "Single" THEN r.node
    ELSE Node(<<NodeEntry(Fcompute_feature(r.left), Some(r.left)),
                NodeEntry(Fcompute_feature(r.right), Some(r.right))>>)

\* ------------------------------------------------- cluster feature algebra
\* Two point sets A and B are summarised point by point, in both variants;
\* `all` summarises every point of A and B in the order of arrival.  The
\* fields birch* and betula* hold the exact sums, fbirchA and fbetulaA the
\* f64 results for A.
CFPoints == {<<1, 2, 3>>, <<2, 2, 3>>, <<0, 0, 0>>}

AccZero ==
    [ptsA |-> <<>>, ptsB |-> <<>>,
     birchA |-> CFZero, birchB |-> CFZero, birchAll |-> CFZero,
     betulaA |-> BetulaZero, betulaB |-> BetulaZero, betulaAll |-> BetulaZero,
     fbirchA |-> FBirchZero, fbetulaA |-> BetulaZero]

CFIdle == cfacc = AccZero /\ cfout = NoCall

CFInit ==
    /\ CFIdle
    /\ ListIdle
    /\ PointIdle
    /\ config = DefaultConfig /\ root = NodeNew /\ inserted = <<>> /\ pc = "idle"

AddPointA(p) ==
    /\ Len(cfacc.ptsA) < MaxCFPoints
    /\ cfacc' = [cfacc EXCEPT !.ptsA = Append(@, p),
                            !.birchA = CFAddPoint(@, p),
                            !.birchAll = CFAddPoint(@, p),
                            !.betulaA = BetulaAddPoint(@, p),
                            !.betulaAll = BetulaAddPoint(@, p),
                            !.fbirchA = FBirchAddPoint(@, p),
                            !.fbetulaA = FBetulaAddPoint(@, p)]
    /\ cfout' = NoCall
    /\ UNCHANGED <<treeVars, listVars, pointVars>>

AddPointB(p) ==
    /\ Len(cfacc.ptsB) < MaxCFPoints
    /\ cfacc' = [cfacc EXCEPT !.ptsB = Append(@, p),
                            !.birchB = CFAddPoint(@, p),
                            !.birchAll = CFAddPoint(@, p),
                            !.betulaB = BetulaAddPoint(@, p),
                            !.betulaAll = BetulaAddPoint(@, p)]
    /\ cfout' = NoCall
    /\ UNCHANGED <<treeVars, listVars, pointVars>>

\* cf + zero()
AddZeroRight ==
    /\ cfout' = [op |-> "cf+zero",
                 birch |-> CFAdd(cfacc.birchA, CFZero),
                 betula |-> BetulaAdd(cfacc.betulaA, BetulaZero)]
    /\ UNCHANGED <<cfacc, treeVars, listVars, pointVars>>

\* zero() + cf
AddZeroLeft ==
    /\ cfout' = [op |-> "zero+cf",
                 birch |-> CFAdd(CFZero, cfacc.birchA),
                 betula |-> BetulaAdd(BetulaZero, cfacc.betulaA)]
    /\ UNCHANGED <<cfacc, treeVars, listVars, pointVars>>

\* CF(A) + CF(B)
Merge ==
    /\ cfout' = [op |-> "merge",
                 birch |-> CFAdd(cfacc.birchA, cfacc.birchB),
                 betula |-> BetulaAdd(cfacc.betulaA, cfacc.betulaB)]
    /\ UNCHANGED <<cfacc, treeVars, listVars, pointVars>>

\* dist2 of CF(A) to a point and to CF(B)
Dist(p) ==
    /\ cfout' = [p |-> p, op |-> "dist2",
                 birch |-> [cf |-> dist2(cfacc.birchA, cfacc.birchB),
                            point |-> dist2Point(cfacc.birchA, p)],
                 betula |-> [cf |-> BetulaDist2(cfacc.betulaA, cfacc.betulaB),
                             point |-> BetulaDist2Point(cfacc.betulaA, p)]]
    /\ UNCHANGED <<cfacc, treeVars, listVars, pointVars>>

CFNext ==
    \/ \E p \in CFPoints : AddPointA(p)
    \/ \E p \in CFPoints : AddPointB(p)
    \/ AddZeroRight
    \/ AddZeroLeft
    \/ Merge
    \/ \E p \in CFPoints : Dist(p)

CFSpec == CFInit /\ [][CFNext]_vars

\* --------------------------------------------- Point arithmetic operations
Scalars == {0, 1, 2, 3}

PointOperands == {<<1, 2, 3>>, <<2, 2, 3>>, <<4, 5, 6>>}

PointInit ==
    /\ PointIdle
    /\ ListIdle
    /\ CFIdle
    /\ config = DefaultConfig /\ root = NodeNew /\ inserted = <<>> /\ pc = "idle"

Computed(form, op, s, p, out) ==
    /\ calc' = [p |-> p, op |-> op, s |-> s, form |-> form, out |-> out]
    /\ UNCHANGED <<treeVars, listVars, cfVars>>

\* p op s: assign_l_scalar(self, rhs), self returned
PointOpScalar(op, self, rhs) ==
    Computed("p op s", op, rhs, self, assign_l_scalar(op, RPoint(self), ToRat(rhs)))

\* &p op s: assign_l_scalar(ret, rhs) on a clone ret of self
RefPointOpScalar(op, self, rhs) ==
    Computed("&p op s", op, rhs, self, assign_l_scalar(op, RPoint(self), ToRat(rhs)))

\* s op p: assign_l_scalar(rhs, self), rhs returned
ScalarOpPoint(op, self, rhs) ==
    Computed("s op p", op, self, rhs, assign_l_scalar(op, RPoint(rhs), ToRat(self)))

\* s op &p: assign_l_scalar(ret, self) on a clone ret of rhs
ScalarOpRefPoint(op, self, rhs) ==
    Computed("s op &p", op, self, rhs, assign_l_scalar(op, RPoint(rhs), ToRat(self)))

PointNext ==
    \/ \E op \in Ops, p \in PointOperands, s \in Scalars : PointOpScalar(op, p, s)
    \/ \E op \in Ops, p \in PointOperands, s \in Scalars : RefPointOpScalar(op, p, s)
    \/ \E op \in Ops, s \in Scalars, p \in PointOperands : ScalarOpPoint(op, s, p)
    \/ \E op \in Ops, s \in Scalars, p \in PointOperands : ScalarOpRefPoint(op, s, p)

PointSpec == PointInit /\ [][PointNext]_vars

\* ------------------------------------------------- BoundedList operations
ListInit ==
    /\ ListIdle
    /\ cfacc = AccZero /\ cfout = NoCall
    /\ PointIdle
    /\ config = DefaultConfig /\ root = NodeNew /\ inserted = <<>> /\ pc = "idle"

Construct(op, r, args) ==
    /\ bl = None
    /\ bl' = IF r.ok THEN Some(r.val) ELSE None
    /\ blret' = [ret |-> IF r.ok THEN Ok(<<>>) ELSE r, op |-> op, args |-> args]
    /\ UNCHANGED <<treeVars, cfVars, pointVars>>

NewWithMax(max) ==
    Construct("with_max", Ok(with_max(max)), [max |-> max])

NewFromArr(values, min, max) ==
    Construct("from_arr", BoundedList_from_arr(values, min, max),
              [min |-> min, max |-> max, values |-> values])

NewFromIter(values, min, max) ==
    Construct("from_iter", BoundedList_from_iter(values, min, max),
              [min |-> min, max |-> max, values |-> values])

Call(op, r, args) ==
    /\ bl # None
    /\ bl' = Some(r.list)
    /\ blret' = [ret |-> r.ret, op |-> op, args |-> args, before |-> bl[1]]
    /\ UNCHANGED <<treeVars, cfVars, pointVars>>

ListPush(item) == bl # None /\ Call("push", BoundedList_push(bl[1], item), [item |-> item])

ListPop == bl # None /\ Call("pop", BoundedList_pop(bl[1]), <<>>)

ListDrain == bl # None /\ Call("drain", BoundedList_drain(bl[1]), <<>>)

ListNext ==
    \/ \E max \in 0..MaxCap : NewWithMax(max)
    \/ \E values \in SeqsUpTo(MaxLen), min, max \in 0..MaxCap : NewFromArr(values, min, max)
    \/ \E values \in SeqsUpTo(MaxLen), min, max \in 0..MaxCap : NewFromIter(values, min, max)
    \/ \E item \in Items : ListPush(item)
    \/ ListPop
    \/ ListDrain

ListSpec == ListInit /\ [][ListNext]_vars

\* ----------------------------------------------------------- state machine
\* from_iter: root = Node::new(config), then one insertion per point of the
\* stream; the stream may end after any prefix.
Init ==
    /\ config \in Configs
    /\ root = NodeNew
    /\ inserted = <<>>
    /\ pc = "iter"
    /\ ListIdle
    /\ CFIdle
    /\ PointIdle

Insert(p) ==
    /\ pc = "iter"
    /\ Len(inserted) < MaxPoints
    /\ LET r == Node_insert(root, p, config)
       IN  /\ root' = IF r.kind = "Panic" THEN root ELSE Promote(r)
           /\ pc' = IF r.kind = "Panic" THEN "panic" ELSE "iter"
    /\ inserted' = Append(inserted, p)
    /\ UNCHANGED <<config, listVars, cfVars, pointVars>>

Return ==
    /\ pc = "iter"
    /\ pc' = "done"
    /\ UNCHANGED <<config, root, inserted, listVars, cfVars, pointVars>>

Next == (\E p \in Points : Insert(p)) \/ Return

Spec == Init /\ [][Next]_vars

\* The stream is finite: its end is reached and from_iter returns.
FairSpec == Spec /\ WF_vars(Return)

\* ------------------------------------------- from_iter on copies of a point
\* Node::from_iter over f64 features, on a stream that repeats one point.
RepeatInit ==
    /\ config \in Configs
    /\ root = NodeNew
    /\ inserted = <<>>
    /\ pc = "iter"
    /\ ListIdle
    /\ CFIdle
    /\ PointIdle

RepeatInsert(p) ==
    /\ pc = "iter"
    /\ Len(inserted) < MaxPoints
    /\ inserted # <<>> => p = inserted[1]
    /\ LET r == FNode_insert(root, p, config)
       IN  /\ root' = IF r.kind = "Panic" THEN root ELSE FPromote(r)
           /\ pc' = IF r.kind = "Panic" THEN "panic" ELSE "iter"
    /\ inserted' = Append(inserted, p)
    /\ UNCHANGED <<config, listVars, cfVars, pointVars>>

RepeatReturn ==
    /\ pc = "iter"
    /\ pc' = "done"
    /\ UNCHANGED <<config, root, inserted, listVars, cfVars, pointVars>>

RepeatNext == (\E p \in Points : RepeatInsert(p)) \/ RepeatReturn

RepeatSpec == RepeatInit /\ [][RepeatNext]_vars

\* ------------------------------------------------------ tree observations
RECURSIVE AllNodes(_)
AllNodes(node) ==
    {node} \cup UNION {AllNodes(node.entries[i].child[1]) :
                          i \in {k \in 1..Len(node.entries) : node.entries[k].child # None}}

\* Depths (root = 1) of the entries without a child.
RECURSIVE LeafDepths(_, _)
LeafDepths(node, d) ==
    UNION {IF node.entries[i].child = None THEN {d}
           ELSE LeafDepths(node.entries[i].child[1], d + 1) : i \in 1..Len(node.entries)}

RECURSIVE LeafSizeSum(_)
RECURSIVE LeafSizeFold(_, _, _)
LeafSizeFold(es, i, acc) ==
    IF i > Len(es) THEN acc
    ELSE LeafSizeFold(es, i + 1,
                      acc + IF es[i].child = None THEN size(es[i].feature)
                            ELSE LeafSizeSum(es[i].child[1]))

LeafSizeSum(node) == LeafSizeFold(node.entries, 1, 0)

\* Entries without a child, anywhere in the tree.
LeafEntries(node) ==
    UNION {{nd.entries[i] : i \in {k \in 1..Len(nd.entries) : nd.entries[k].child = None}}
              : nd \in AllNodes(node)}

TypeOK ==
    /\ config \in Configs
    /\ pc \in {"iter", "done", "panic", "idle"}
    /\ Len(inserted) <= MaxPoints

\* ------------------------------------------------------------- properties
ThresholdNonNeg(c) ==
    \/ c.threshold.kind = "inf"
    \/ c.threshold.kind = "finite" /\ c.threshold.num >= 0

AllSame(points) == \A i \in 1..Len(points) : points[i] = points[1]

HasChild(node) == \E i \in 1..Len(node.entries) : node.entries[i].child # None

\* C1 (P5, capacity upper bound): with max >= 2, after each insertion every
\* node of the tree, the root included, has at most max entries.
C1_CapacityUpperBound ==
    config.capacity.max >= 2 =>
        \A nd \in AllNodes(root) : Len(nd.entries) <= config.capacity.max

\* C2 (P1, balanced): after every insertion all entries without a child are
\* at the same depth from the root.
C2_Balanced == Cardinality(LeafDepths(root, 1)) <= 1

\* C3 (P3, count conservation): after every prefix of the stream, the sizes of
\* the entries without a child sum to the number of points inserted so far.
C3_CountConservation == LeafSizeSum(root) = Len(inserted)

\* C3 witness: four or more points, some absorbed into an entry, below a
\* promoted root whose child was split.
C3_Witness ==
    /\ Len(inserted) >= 4
    /\ height(root) >= 3
    /\ \E e \in LeafEntries(root) : size(e.feature) >= 2

\* C4 (P4, feature consistency): after every insertion every entry with a
\* child has the feature compute_feature gives for that child, at every level.
C4_FeatureConsistency ==
    \A nd \in AllNodes(root) : \A i \in 1..Len(nd.entries) :
        nd.entries[i].child # None =>
            nd.entries[i].feature = compute_feature(nd.entries[i].child[1])

\* C4 witness: a tree of height 3 (a child split and two root promotions)
\* into whose lower levels a later point was inserted.
C4_Witness ==
    /\ height(root) >= 3
    /\ LeafSizeSum(root) >= 5
    /\ \E i \in 1..Len(root.entries) :
          /\ root.entries[i].child # None
          /\ size(root.entries[i].feature) >= 3

\* C5 (P2, leaf threshold): for a threshold >= 0, after every insertion every
\* entry without a child has diam2 <= threshold.
C5_LeafThreshold ==
    ThresholdNonNeg(config) =>
        \A e \in LeafEntries(root) : LeqThreshold(diam2(e.feature), config.threshold)

\* C5 witness: a finite threshold and a leaf entry that absorbed distinct
\* points (diam2 > 0), next to a leaf entry created after a failed absorption.
C5_Witness ==
    /\ config.threshold.kind = "finite"
    /\ \E e \in LeafEntries(root) : size(e.feature) >= 2 /\ diam2(e.feature).num > 0
    /\ Cardinality(LeafEntries(root)) >= 2

\* C6 (P6, singleton degeneracy) on points whose sums are exact in f64: with
\* max >= 2 and threshold >= 0, a tree built from k >= 1 copies of one point
\* has height 1 and exactly one entry, a leaf entry of size k and diam2 0.
C6_SingletonDegeneracy ==
    (config.capacity.max >= 2 /\ ThresholdNonNeg(config)
       /\ inserted # <<>> /\ AllSame(inserted)) =>
        /\ height(root) = 1
        /\ Len(root.entries) = 1
        /\ root.entries[1].child = None
        /\ size(root.entries[1].feature) = Len(inserted)
        /\ diam2(root.entries[1].feature).num = 0

\* C6 witness: three or more copies of a point other than the origin, under
\* threshold 0.
C6_Witness ==
    /\ config = BasicConfig(1, 2, Finite(0, 1))
    /\ Len(inserted) >= 3
    /\ AllSame(inserted)
    /\ inserted[1] # PointZero
    /\ size(root.entries[1].feature) = Len(inserted)

\* C7 (scenario 2): the default config and the four sample points, in order,
\* give a root of height 2 with exactly two entries, both with a child, and
\* leaf sizes that sum to 4.
C7_FourNearPoints ==
    (config = DefaultConfig /\ inserted = SamplePoints) =>
        /\ height(root) = 2
        /\ Len(root.entries) = 2
        /\ \A i \in 1..Len(root.entries) : root.entries[i].child # None
        /\ LeafSizeSum(root) = 4

\* C8 (order sensitivity): there are three points a, b, c and a config for
\* which from_iter([a, b, c]) and from_iter([c, b, a]) are different trees:
\* the first three sample points under the default config.
C8_OrderSensitive ==
    (config = DefaultConfig
       /\ inserted = <<SamplePoints[1], SamplePoints[2], SamplePoints[3]>>) =>
        root # from_iter(<<inserted[3], inserted[2], inserted[1]>>, config, NodeNew)

\* C8 witness: the tree of [a, b, c] has been built.
C8_Witness ==
    /\ config = DefaultConfig
    /\ inserted = <<SamplePoints[1], SamplePoints[2], SamplePoints[3]>>
    /\ LeafSizeSum(root) = 3

ValidCapacity(c) ==
    1 <= c.capacity.min /\ c.capacity.min <= c.capacity.max /\ c.capacity.max >= 2

\* C9 (totality): with 1 <= min <= max and max >= 2, from_iter over a finite
\* stream never reaches the "unexpected empty node" panic of farthest, and it
\* terminates.
C9_NoPanicTerminates ==
    /\ [](ValidCapacity(config) => pc # "panic")
    /\ <>(pc \in {"done", "panic"})

\* C9 witness: from_iter returned a tree in which nodes were split at two
\* levels (farthest ran on a leaf node and on a node of children).
C9_Witness ==
    /\ ValidCapacity(config)
    /\ pc = "done"
    /\ height(root) >= 3

ConfigInvalid(c) ==
    \/ c.capacity.max < c.capacity.min
    \/ c.capacity.max < 2
    \/ c.threshold.kind # "finite"

\* C10 (ConfigInvalid): under a config with max < min, max < 2 or a
\* non-finite threshold no tree is built: no point is ever inserted and
\* from_iter never returns a tree.
C10_InvalidConfigRejected ==
    ConfigInvalid(config) => (inserted = <<>> /\ pc # "done")

\* Entries of every node of the tree.
AllEntries(node) ==
    UNION {{nd.entries[i] : i \in 1..Len(nd.entries)} : nd \in AllNodes(node)}

\* C11 (balanced-tree invariant): in every node all children have the same
\* height, and no node holds both entries with a child and entries without.
C11_UniformChildren ==
    \A nd \in AllNodes(root) :
        /\ \A i, j \in 1..Len(nd.entries) :
              (nd.entries[i].child # None /\ nd.entries[j].child # None) =>
                  height(nd.entries[i].child[1]) = height(nd.entries[j].child[1])
        /\ \A i, j \in 1..Len(nd.entries) :
              (nd.entries[i].child = None) = (nd.entries[j].child = None)

\* Index of the first entry at minimum dist2 to p (0 for a node without
\* entries).
FirstMin(node, p) ==
    IF node.entries = <<>> THEN 0
    ELSE CHOOSE i \in 1..Len(node.entries) :
            /\ \A j \in 1..Len(node.entries) :
                  dist2Point(node.entries[i].feature, p)
                     <= dist2Point(node.entries[j].feature, p)
            /\ \A j \in 1..(i - 1) :
                  dist2Point(node.entries[j].feature, p)
                     > dist2Point(node.entries[i].feature, p)

\* C19 (entry selection): in every node with entries and for every point p,
\* Node::insert selects the first entry at minimum dist2 to p; no entry is
\* selected only when the node has no entries.
C19_SelectsFirstMinimum ==
    \A nd \in AllNodes(root) : \A p \in Points : Closest(nd, p) = FirstMin(nd, p)

\* C20 (absorption): NodeEntry::insert on an entry with feature f returns
\* Success iff (f + p).diam2() <= threshold; on Success the feature becomes
\* f + p and the child is unchanged; on Failure the entry is unchanged and
\* Failure carries p.
C20_EntryInsertContract ==
    \A e \in AllEntries(root) : \A p \in Points :
        LET r == NodeEntry_insert(e, p, config)
            expect == LET f == e.feature
                          ls == PointAdd(f.ls, p)
                          ss == f.ss + norm2(p)
                          n == f.n + 1
                          num == 2 * n * ss - 2 * norm2(ls)
                          den == IF n < 2 THEN 1 ELSE n * (n - 1)
                      IN  [f |-> [ls |-> ls, ss |-> ss, n |-> n],
                           ok |-> CASE config.threshold.kind = "inf" -> TRUE
                                    [] config.threshold.kind = "finite" ->
                                         num * config.threshold.den
                                            <= config.threshold.num * den
                                    [] OTHER -> FALSE]
        IN  /\ r.success = expect.ok
            /\ r.success => (r.entry.feature = expect.f /\ r.entry.child = e.child)
            /\ ~r.success => (r.entry = e /\ r.p = p)

\* C20 witness: a tree in which one insertion was absorbed by a leaf entry
\* (size 3 after two absorptions) and another was refused by the selected
\* entry, which stayed a singleton next to the new entry.
C20_Witness ==
    /\ config.threshold.kind = "finite"
    /\ \E e \in LeafEntries(root) : size(e.feature) >= 3
    /\ \E e \in LeafEntries(root) : size(e.feature) = 1
    /\ \E e \in LeafEntries(root) : \E p \in Points :
          ~NodeEntry_insert(e, p, config).success

\* C12 (module doc of bounded_list.rs): a BoundedList holds between min and
\* max elements after any sequence of push, pop and drain calls.
C12_LengthWithinBounds ==
    bl # None => (bl[1].min <= Len(bl[1].values) /\ Len(bl[1].values) <= bl[1].max)

\* C13 (construction): from_arr and from_iter return Err(InvalidBounds)
\* exactly when min > max or the number of values is < min or > max, and
\* allocate nothing then; otherwise they return a list with exactly the given
\* values, in order, and the given min and max.
C13_ConstructorBounds ==
    blret.op \in {"from_arr", "from_iter"} =>
        LET a == blret.args
            bad == a.min > a.max \/ Len(a.values) < a.min \/ Len(a.values) > a.max
        IN  IF bad
            THEN blret.ret = Err(InvalidBounds) /\ bl = None
            ELSE blret.ret.ok /\ bl = Some([min |-> a.min, max |-> a.max, values |-> a.values])

\* C13 witness: from_iter accepted a full list of two values with min > 0.
C13_Witness ==
    /\ blret.op = "from_iter"
    /\ blret.ret.ok
    /\ blret.args.min = 1
    /\ blret.args.max = 2
    /\ bl # None
    /\ Len(bl[1].values) = 2

\* C14 (zero is a two-sided identity): for every cluster feature cf built by
\* adding points to zero(), zero() included, cf + zero() and zero() + cf have
\* the fields of cf, in both variants.
C14_ZeroIdentity ==
    cfout.op \in {"cf+zero", "zero+cf"} =>
        /\ cfout.birch = cfacc.birchA
        /\ BetulaEq(cfout.betula, cfacc.betulaA)

Dot(a, b) == LET RECURSIVE F(_, _)
                 F(i, acc0) == IF i > Dims THEN acc0 ELSE F(i + 1, acc0 + a[i] * b[i])
             IN  F(1, 0)

\* C16 (merge = accumulation): for non-empty A and B, CF(A) + CF(B) has the
\* size, center and diam2 of the cluster feature that absorbed the points of
\* A and B one at a time, for BirchCF and for BetulaCF, in exact arithmetic.
C16_MergeIsAccumulation ==
    (cfout.op = "merge" /\ cfacc.ptsA # <<>> /\ cfacc.ptsB # <<>>) =>
        /\ size(cfout.birch) = size(cfacc.birchAll)
        /\ RPointEq(center(cfout.birch), center(cfacc.birchAll))
        /\ REq(Rdiam2(cfout.birch), Rdiam2(cfacc.birchAll))
        /\ REq(BetulaSize(cfout.betula), BetulaSize(cfacc.betulaAll))
        /\ RPointEq(BetulaCenter(cfout.betula), BetulaCenter(cfacc.betulaAll))
        /\ REq(BetulaDiam2(cfout.betula), BetulaDiam2(cfacc.betulaAll))

\* C16 witness: two sets of two or more points each, not all equal, merged
\* into a feature of positive diam2.
C16_Witness ==
    /\ cfout.op = "merge"
    /\ Len(cfacc.ptsA) >= 2
    /\ Len(cfacc.ptsB) >= 2
    /\ cfacc.ptsA[1] # cfacc.ptsA[2]
    /\ BetulaDiam2(cfout.betula).num > 0
    /\ diam2(cfout.birch).num > 0
    /\ size(cfout.birch) = Len(cfacc.ptsA) + Len(cfacc.ptsB)

\* C17 (Birch dist2 is on the linear sums): dist2(cf, point) = ||ls - point||^2
\* and dist2(cf, cf') = ||ls - ls'||^2, whatever the sizes n.
C17_BirchDist2OnLinearSum ==
    cfout.op = "dist2" =>
        LET a == cfacc.birchA.ls
            b == cfacc.birchB.ls
        IN  /\ cfout.birch.point = Dot(a, a) - 2 * Dot(a, cfout.p) + Dot(cfout.p, cfout.p)
            /\ cfout.birch.cf = Dot(a, a) - 2 * Dot(a, b) + Dot(b, b)

\* C17 witness: dist2 taken on features of two or more points, where the
\* distance of the linear sum differs from the distance of the center.
C17_Witness ==
    /\ cfout.op = "dist2"
    /\ size(cfacc.birchA) >= 2
    /\ size(cfacc.birchB) >= 2
    /\ ~REq(ToRat(cfout.birch.point),
            Rnorm2(RPointSub(center(cfacc.birchA), RPoint(cfout.p))))
    /\ ~REq(ToRat(cfout.birch.cf),
            Rnorm2(RPointSub(center(cfacc.birchA), center(cfacc.birchB))))

\* C15 (identical points have diameter zero): for both variants, the feature
\* of k >= 1 copies of one point, added to zero() one at a time, has diam2
\* exactly 0 and size k; k = 1 is CF::from(p).
Copies(pts) == pts # <<>> /\ \A i \in 1..Len(pts) : pts[i] = pts[1]

C15_IdenticalPointsZeroDiam ==
    Copies(cfacc.ptsA) =>
        /\ REq(FBirchDiam2(cfacc.fbirchA), ToRat(0))
        /\ REq(FBirchSize(cfacc.fbirchA), ToRat(Len(cfacc.ptsA)))
        /\ REq(FBetulaDiam2(cfacc.fbetulaA), ToRat(0))
        /\ REq(BetulaSize(cfacc.fbetulaA), ToRat(Len(cfacc.ptsA)))

\* The Betula half of C15 alone.
C15_BetulaZeroDiam ==
    Copies(cfacc.ptsA) =>
        /\ REq(FBetulaDiam2(cfacc.fbetulaA), ToRat(0))
        /\ REq(BetulaSize(cfacc.fbetulaA), ToRat(Len(cfacc.ptsA)))

\* The singleton half of C15 alone.
C15_SingletonZeroDiam ==
    Len(cfacc.ptsA) = 1 =>
        /\ REq(FBirchDiam2(cfacc.fbirchA), ToRat(0))
        /\ REq(FBetulaDiam2(cfacc.fbetulaA), ToRat(0))

\* C18 (scalar broadcast): for every operator, s op p and s op &p give
\* result[i] = s op p[i], and p op s gives result[i] = p[i] op s.
C18_ScalarBroadcast ==
    calc.op # "none" =>
        \A i \in 1..Dims :
            IF calc.form \in {"s op p", "s op &p"}
            THEN calc.out[i] = Apply(calc.op, ToRat(calc.s), ToRat(calc.p[i]))
            ELSE calc.out[i] = Apply(calc.op, ToRat(calc.p[i]), ToRat(calc.s))

\* The scalar-on-the-right half of C18 alone.
C18_ScalarRight ==
    (calc.op # "none" /\ calc.form \in {"p op s", "&p op s"}) =>
        \A i \in 1..Dims :
            calc.out[i] = Apply(calc.op, ToRat(calc.p[i]), ToRat(calc.s))

\* The scalar-on-the-left half of C18 for the commutative operators.
C18_ScalarLeftCommutative ==
    (calc.op \in {"+", "*"} /\ calc.form \in {"s op p", "s op &p"}) =>
        \A i \in 1..Dims :
            calc.out[i] = Apply(calc.op, ToRat(calc.s), ToRat(calc.p[i]))

\* C6 over f64 features (singleton degeneracy): the tree built from k >= 1
\* copies of a point (threshold >= 0, max >= 2) has a root of height 1 with
\* exactly one entry, a leaf entry with size == k and diam2 == 0.
C6_SingletonDegeneracyF64 ==
    (config.capacity.max >= 2 /\ ThresholdNonNeg(config)
       /\ inserted # <<>> /\ AllSame(inserted)) =>
        /\ height(root) = 1
        /\ Len(root.entries) = 1
        /\ root.entries[1].child = None
        /\ REq(FBirchSize(root.entries[1].feature), ToRat(Len(inserted)))
        /\ REq(FBirchDiam2(root.entries[1].feature), ToRat(0))

\* The structural half of C6 over f64 features: one leaf entry of size k.
C6_SingleEntryF64 ==
    (config.capacity.max >= 2 /\ ThresholdNonNeg(config)
       /\ inserted # <<>> /\ AllSame(inserted)) =>
        /\ height(root) = 1
        /\ Len(root.entries) = 1
        /\ root.entries[1].child = None
        /\ REq(FBirchSize(root.entries[1].feature), ToRat(Len(inserted)))

\* One step of from_iter: the point taken from the stream and the outcome of
\* inserting it into the root.
InsertStep == pc = "iter" /\ Len(inserted') = Len(inserted) + 1

Inserting == inserted'[Len(inserted')]

Outcome == Node_insert(root, Inserting, config)

\* C21 (split check after an append): whenever Node::insert appends a new
\* entry to a node that already holds at least one entry, it returns Split
\* when the resulting entry count is >= node_capacity().max and Single
\* otherwise.
C21_AppendThenSplitCheck ==
    [][(InsertStep /\ config.capacity.max >= 2 /\ Len(root.entries) >= 1) =>
          LET r == Outcome
          IN  /\ (r.kind = "Single" /\ Len(r.node.entries) = Len(root.entries) + 1) =>
                    Len(r.node.entries) < config.capacity.max
              /\ r.kind = "Split" =>
                    Len(r.left.entries) + Len(r.right.entries) >= config.capacity.max]_vars

\* The nodes split while point p is inserted into the root; SplitNodes is
\* that set for the point of this step.
SplitNodesFor(p) ==
    {nd \in SplitInputs(root, p, config) :
        Len(nd.entries) >= config.capacity.max /\ Len(nd.entries) >= 2}

SplitNodes == SplitNodesFor(Inserting)

\* The indices the claim places in the left node: L, and every other entry
\* strictly closer to L than to R.
ClaimedLeft(nd) ==
    LET f == farthest(nd)[1]
        es == nd.entries
    IN  {f.lidx} \cup {k \in (1..Len(es)) \ {f.lidx, f.ridx} :
                          dist2(es[f.lidx].feature, es[k].feature)
                            < dist2(es[f.ridx].feature, es[k].feature)}

\* C22 (split placement): in every split of a node with n >= 2 entries,
\* entry L of the farthest pair goes to the left node and entry R to the
\* right node, so neither node is empty; every other entry k goes left iff
\* dist2(L, k) < dist2(R, k) and right otherwise.
C22_SplitPlacement ==
    [][InsertStep =>
          \A nd \in SplitNodes :
              LET r == check_split(nd, config)
              IN  /\ r = PartitionFold(nd.entries, ClaimedLeft(nd), 1, <<>>, <<>>)
                  /\ r.left.entries # <<>>
                  /\ r.right.entries # <<>>]_vars

\* dist2 between entries i and j of a node.
PairDist2(nd, i, j) == dist2(nd.entries[i].feature, nd.entries[j].feature)

\* The pairs (i, j), i < j, of a node at maximum dist2.
MaximalPairs(nd) ==
    LET pairs == {ij \in (1..Len(nd.entries)) \X (1..Len(nd.entries)) : ij[1] < ij[2]}
    IN  {ij \in pairs : \A kl \in pairs :
                            PairDist2(nd, kl[1], kl[2]) <= PairDist2(nd, ij[1], ij[2])}

\* C23 (farthest pair): on every node with n >= 2 entries handed to
\* Node::farthest, the result has lidx < ridx, the pair is at maximum dist2
\* over all unordered pairs, it is the first maximal pair in lexicographic
\* order of (i, j), and farthest_dist2 is that maximum.
C23_FarthestPair ==
    pc = "iter" =>
        \A p \in Points : \A nd \in SplitNodesFor(p) :
            LET f == farthest(nd)
            IN  /\ f # None
                /\ f[1].lidx < f[1].ridx
                /\ <<f[1].lidx, f[1].ridx>> \in MaximalPairs(nd)
                /\ \A ij \in MaximalPairs(nd) :
                      \/ f[1].lidx < ij[1]
                      \/ (f[1].lidx = ij[1] /\ f[1].ridx <= ij[2])
                /\ f[1].farthest_dist2 = PairDist2(nd, f[1].lidx, f[1].ridx)

\* C23 witness: the next insertion splits a node of three or more entries in
\* which several pairs are at the maximum distance, the last of them not the
\* first.
C23_Witness ==
    /\ pc = "iter"
    /\ Len(inserted) < MaxPoints
    /\ \E p \in Points : \E nd \in SplitNodesFor(p) :
          /\ Len(nd.entries) >= 3
          /\ Cardinality(MaximalPairs(nd)) >= 2
          /\ PairDist2(nd, 1, 2) < PairDist2(nd, 1, 3)

\* The entries of es at the indices in S, in increasing index order.
Pick(es, S) ==
    [k \in 1..Cardinality(S) |->
        es[CHOOSE i \in S : Cardinality({j \in S : j <= i}) = k]]

\* C24 (a split partitions the entries): the two nodes of a split hold the
\* entries of the split node at two complementary index sets, each entry
\* with its feature and child as before, none added, and in each node in
\* the order of the original entry sequence.
C24_SplitPartitions ==
    pc = "iter" =>
        \A p \in Points : \A nd \in SplitNodesFor(p) :
            LET r == check_split(nd, config)
                all == 1..Len(nd.entries)
            IN  /\ r.kind = "Split"
                /\ \E S \in SUBSET all :
                      /\ r.left.entries = Pick(nd.entries, S)
                      /\ r.right.entries = Pick(nd.entries, all \ S)

\* C24 witness: the next insertion splits a node of three or more entries,
\* one of them with a child, into a left node with entries and a right node
\* with two or more.
C24_Witness ==
    /\ pc = "iter"
    /\ Len(inserted) < MaxPoints
    /\ \E p \in Points : \E nd \in SplitNodesFor(p) :
          /\ Len(nd.entries) >= 3
          /\ \E i \in 1..Len(nd.entries) : nd.entries[i].child # None
          /\ check_split(nd, config).left.entries # <<>>
          /\ Len(check_split(nd, config).right.entries) >= 2

\* C25 (root promotion and height): when the insertion into the root returns
\* Split(L, R), the new root has exactly two entries, {sum of L's entry
\* features, L} then {sum of R's entry features, R}, and its height is the
\* old root's height + 1; when it returns Single, the height is unchanged.
\* The height never decreases and grows by at most 1 per inserted point.
C25_RootPromotion ==
    [][InsertStep =>
          LET r == Outcome
          IN  /\ r.kind = "Split" =>
                    /\ Len(root'.entries) = 2
                    /\ root'.entries[1].child = Some(r.left)
                    /\ root'.entries[1].feature = compute_feature(r.left)
                    /\ root'.entries[2].child = Some(r.right)
                    /\ root'.entries[2].feature = compute_feature(r.right)
                    /\ height(root') = height(root) + 1
              /\ r.kind = "Single" => height(root') = height(root)
              /\ height(root') >= height(root)
              /\ height(root') <= height(root) + 1]_vars

\* C25 witness: a tree whose root was promoted twice: two entries, both with
\* a child, at height 3, with different features.
C25_Witness ==
    /\ height(root) >= 3
    /\ Len(root.entries) = 2
    /\ root.entries[1].child # None
    /\ root.entries[2].child # None
    /\ root.entries[1].feature # root.entries[2].feature

\* The parent the claim describes after its selected child returned
\* Split(left, right): entry sel holds left, one entry for right comes last.
AfterChildSplit(nd, sel, left, right) ==
    [i \in 1..(Len(nd.entries) + 1) |->
        IF i = sel THEN [feature |-> compute_feature(left), child |-> Some(left)]
        ELSE IF i = Len(nd.entries) + 1
        THEN [feature |-> compute_feature(right), child |-> Some(right)]
        ELSE nd.entries[i]]

\* C26 (frame of the recursive arm): when the insertion into the selected
\* entry's child returns Split(L, R), the parent handed to its own split
\* check keeps the selected entry in place with child L and the sum of L's
\* entry features, gains one last entry with R and the sum of R's entry
\* features, and keeps every other entry; when it returns Single, the
\* parent's entry count is unchanged and the parent returns Single.
C26_ChildResultFrame ==
    pc = "iter" =>
        \A p \in Points : \A nd \in InsertPath(root, p) :
            LET sel == Closest(nd, p)
            IN  (sel # 0 /\ nd.entries[sel].child # None) =>
                    LET r == Node_insert(nd.entries[sel].child[1], p, config)
                        out == Node_insert(nd, p, config)
                    IN  /\ r.kind = "Split" =>
                              out = check_split(Node(AfterChildSplit(nd, sel, r.left, r.right)),
                                                config)
                        /\ r.kind = "Single" =>
                              /\ out.kind = "Single"
                              /\ Len(out.node.entries) = Len(nd.entries)

\* C26 witness: the next insertion descends into a child that splits, under
\* a parent of two or more entries, and another next insertion descends
\* into a child that returns Single.
C26_Witness ==
    /\ pc = "iter"
    /\ Len(inserted) < MaxPoints
    /\ \E p \in Points : \E nd \in InsertPath(root, p) :
          /\ Closest(nd, p) # 0
          /\ Len(nd.entries) >= 2
          /\ nd.entries[Closest(nd, p)].child # None
          /\ Node_insert(nd.entries[Closest(nd, p)].child[1], p, config).kind = "Split"
    /\ \E p \in Points :
          /\ Closest(root, p) # 0
          /\ root.entries[Closest(root, p)].child # None
          /\ Node_insert(root.entries[Closest(root, p)].child[1], p, config).kind = "Single"

\* C27 (error outcomes leave the list unchanged): push on a list with
\* len >= max returns Err(MaxBoundExceeded(item)) with the offered item and
\* pop on a list with len <= min returns Err(MinBoundExceeded), both leaving
\* the list as it was; otherwise push appends the item at the end and pop
\* removes and returns the last element, and min and max never change.
C27_ErrorsLeaveListUnchanged ==
    /\ blret.op = "push" =>
          LET b == blret.before
          IN  /\ bl[1].min = b.min /\ bl[1].max = b.max
              /\ IF Len(b.values) >= b.max
                 THEN /\ blret.ret = [ok |-> FALSE,
                                      err |-> [kind |-> "MaxBoundExceeded",
                                               item |-> blret.args.item]]
                      /\ bl[1].values = b.values
                 ELSE /\ blret.ret.ok
                      /\ Len(bl[1].values) = Len(b.values) + 1
                      /\ bl[1].values = b.values \o <<blret.args.item>>
    /\ blret.op = "pop" =>
          LET b == blret.before
          IN  /\ bl[1].min = b.min /\ bl[1].max = b.max
              /\ IF Len(b.values) <= b.min
                 THEN /\ blret.ret = [ok |-> FALSE, err |-> [kind |-> "MinBoundExceeded"]]
                      /\ bl[1].values = b.values
                 ELSE /\ blret.ret = [ok |-> TRUE, val |-> b.values[Len(b.values)]]
                      /\ Len(bl[1].values) = Len(b.values) - 1
                      /\ bl[1].values \o <<blret.ret.val>> = b.values

\* C27 witness: push was refused on a full list of two different values, the
\* offered item not being the last stored one.
C27_Witness ==
    /\ blret.op = "push"
    /\ ~blret.ret.ok
    /\ Len(blret.before.values) = 2
    /\ blret.before.values[1] # blret.before.values[2]
    /\ blret.args.item # blret.before.values[2]
    /\ blret.before.min = 1

====
